---------------------------- MODULE Spec2Model ----------------------------
(***************************************************************************)
(* A model of the DFARS / NDAA pipeline: five batch scripts chained by CSV *)
(* files on disk.                                                          *)
(*                                                                         *)
(*   parse_tracker.py              Tracker Parser                          *)
(*   fetch_citation.py             Citation Resolver                       *)
(*   download_fr_htmls.py          Document Fetcher                        *)
(*   extract_dfars_sections_ndaa.py  Section Extractor                     *)
(*   add_ndaa_text.py              Statute Text Joiner                     *)
(*                                                                         *)
(* Every stage is a separate process, so every stage has its own variables *)
(* and its own specification; the variables of the stages that do not run  *)
(* stay at their idle values.                                              *)
(*                                                                         *)
(* Strings are sequences of tokens (a token is a character or a chunk that *)
(* the code never looks inside), so that splitting, stripping, replacing   *)
(* and concatenating are computed, not assumed.                            *)
(***************************************************************************)
EXTENDS Integers, Sequences, FiniteSets, TLC

(***************************************************************************)
(* State.  One block of variables per stage.                               *)
(***************************************************************************)
VARIABLES
    f_pc,           \* position of the script: off, collect, loop, done
    f_df,           \* the fr_body_html_url column as read_csv returns it
    download_list,  \* the (url, filepath) list
    f_i,            \* index of the next download_list entry (from 1)
    files,          \* OUTPUT_DIR: file name -> Missing, Empty or content
    files0,         \* OUTPUT_DIR when the run started
    success,
    failed,
    f_requests,     \* the urls passed to requests.get, in order
    f_visited       \* the entries the loop has handled, in order: (url,
                    \* "exists" or the download's outcome)

VARIABLES
    x_pc,        \* off, api, stored, fetched, looked
    x_doc,       \* the API result the Resolver matched
    x_url,       \* the url the Resolver stores in fr_body_html_url
    x_written,   \* the file name the Fetcher writes
    x_lookup     \* the file name the Extractor opens (None: the url is skipped)

VARIABLES
    r_pc,                  \* off, row, cite, done, crashed
    dfars_df,              \* rows of (frn_citation, fr_date) cells as read_csv returns them
    r_idx,                 \* index of the current row (from 1)
    individual_citations,
    individual_dates,
    r_j,                   \* index of the next citation of the row (from 1)
    row_titles,
    row_urls,
    fr_titles,
    fr_html_urls,
    r_log                  \* per row started, the lookups made for it, in order

VARIABLES
    ndaa_files,    \* the per-year statute JSON files: fiscal year -> file
    ndaa_cache,    \* fiscal year -> what lookup_ndaa_text has cached for it
    l_hist,        \* the lookup_ndaa_text calls made one by one, with results
    j_pc,          \* off, lookup, fanout, done
    rows,          \* the detail CSV's rows (their ndaa_year, ndaa_section)
    unique_pairs,  \* the pairs the lookup loop has still to visit
    text_cache,    \* (fy_str, section_str) -> text
    j_calls        \* the pairs lookup_ndaa_text was called with, in order

VARIABLES
    p_pc,      \* off, rows, done
    p_table,   \* the rows of all tables of all pages, in order
    p_i,       \* index of the next row (from 1)
    results    \* the records appended so far

VARIABLES
    e_pc,                   \* off, rows, done
    e_df,                   \* the rows of ndaa_final_rule_with_rationale.csv
    e_idx,                  \* index of the next row (from 1)
    html_dir,               \* the cached HTML files: file name -> document
    all_details,
    affected_sections_col,
    skipped,
    e_detail_src            \* for each entry of all_details: (row, position of
                            \* the url in the row's cell) it was made for

VARIABLES
    c_pc,                   \* off, on
    c_disk,                 \* the CSV files under ./data: name -> header, rows
    c_last,                 \* the last stage run: its input and output headers
    c_runs                  \* stage runs so far

\* extract_dfars_sections on one document
VARIABLES
    s_pc,                   \* off, doc, done
    s_doc,                  \* the parsed document: its elements in document order
    s_records,              \* the list extract_dfars_sections returned
    s_fallback              \* whether the regex fallback of lines 146-159 ran

\* fetch_citation_by_date_and_page on one citation
VARIABLES
    q_pc,                   \* off, args, done
    q_citation,             \* the citation string
    q_date,                 \* the date string
    q_resp1,                \* what the API answers to the narrow query
    q_resp2,                \* what the API answers to the broad query
    q_result                \* the document returned and the requests made

\* What a step of one stage leaves alone: the variables of the other stages.
Frame(stage) ==
    /\ IF stage = "fetch" THEN TRUE
       ELSE UNCHANGED <<f_pc, f_df, download_list, f_i, files, files0, success, failed,
                         f_requests, f_visited>>
    /\ IF stage = "cross" THEN TRUE
       ELSE UNCHANGED <<x_pc, x_doc, x_url, x_written, x_lookup>>
    /\ IF stage = "resolve" THEN TRUE
       ELSE UNCHANGED <<r_pc, dfars_df, r_idx, individual_citations, individual_dates,
                         r_j, row_titles, row_urls, fr_titles, fr_html_urls, r_log>>
    /\ IF stage = "lookup" THEN TRUE
       ELSE UNCHANGED <<l_hist>>
    /\ IF stage = "join" THEN TRUE
       ELSE UNCHANGED <<j_pc, rows, unique_pairs, text_cache, j_calls>>
    /\ IF stage = "parse" THEN TRUE
       ELSE UNCHANGED <<p_pc, p_table, p_i, results>>
    /\ IF stage = "extract" THEN TRUE
       ELSE UNCHANGED <<e_pc, e_df, e_idx, html_dir, all_details,
                         affected_sections_col, skipped, e_detail_src>>
    /\ IF stage = "column" THEN TRUE
       ELSE UNCHANGED <<c_pc, c_disk, c_last, c_runs>>
    /\ IF stage = "sections" THEN TRUE
       ELSE UNCHANGED <<s_pc, s_doc, s_records, s_fallback>>
    /\ IF stage = "query" THEN TRUE
       ELSE UNCHANGED <<q_pc, q_citation, q_date, q_resp1, q_resp2, q_result>>
    /\ IF stage \in {"lookup", "join"} THEN TRUE ELSE UNCHANGED <<ndaa_files, ndaa_cache>>

\* The stages that are not run have their variables at rest.
Idle(stage) ==
    /\ IF stage = "fetch" THEN TRUE
       ELSE /\ f_pc = "off" /\ f_df = <<>> /\ download_list = <<>> /\ f_i = 0
            /\ files = <<>> /\ files0 = <<>> /\ success = 0 /\ failed = 0
            /\ f_requests = <<>> /\ f_visited = <<>>
    /\ IF stage = "cross" THEN TRUE
       ELSE /\ x_pc = "off" /\ x_doc = <<>> /\ x_url = <<>> /\ x_written = <<>>
            /\ x_lookup = <<>>
    /\ IF stage = "resolve" THEN TRUE
       ELSE /\ r_pc = "off" /\ dfars_df = <<>> /\ r_idx = 0
            /\ individual_citations = <<>> /\ individual_dates = <<>> /\ r_j = 0
            /\ row_titles = <<>> /\ row_urls = <<>>
            /\ fr_titles = <<>> /\ fr_html_urls = <<>> /\ r_log = <<>>
    /\ IF stage = "lookup" THEN TRUE ELSE l_hist = <<>>
    /\ IF stage = "join" THEN TRUE
       ELSE /\ j_pc = "off" /\ rows = <<>> /\ unique_pairs = {} /\ text_cache = <<>>
            /\ j_calls = <<>>
    /\ IF stage = "parse" THEN TRUE
       ELSE p_pc = "off" /\ p_table = <<>> /\ p_i = 0 /\ results = <<>>
    /\ IF stage = "extract" THEN TRUE
       ELSE /\ e_pc = "off" /\ e_df = <<>> /\ e_idx = 0 /\ html_dir = <<>>
            /\ all_details = <<>> /\ affected_sections_col = <<>> /\ skipped = <<>>
            /\ e_detail_src = <<>>
    /\ IF stage = "column" THEN TRUE
       ELSE c_pc = "off" /\ c_disk = <<>> /\ c_last = <<>> /\ c_runs = 0
    /\ IF stage = "sections" THEN TRUE
       ELSE s_pc = "off" /\ s_doc = <<>> /\ s_records = <<>> /\ s_fallback = FALSE
    /\ IF stage = "query" THEN TRUE
       ELSE /\ q_pc = "off" /\ q_citation = <<>> /\ q_date = <<>> /\ q_resp1 = <<>>
            /\ q_resp2 = <<>> /\ q_result = <<>>
    /\ IF stage \in {"lookup", "join"} THEN TRUE
       ELSE ndaa_files = <<>> /\ ndaa_cache = <<>>

(***************************************************************************)
(* Generic sequence helpers                                                *)
(***************************************************************************)
Range(s) == {s[i] : i \in 1..Len(s)}

\* The sequences over S of length 0..n.
SeqsUpTo(S, n) == UNION {[1..k -> S] : k \in 0..n}

\* Python's None.
None == <<"<None>">>

\* Position of the last occurrence of t in s, 0 when there is none.
LastIndexOf(s, t) ==
    IF \E i \in 1..Len(s) : s[i] = t
    THEN CHOOSE i \in 1..Len(s) : s[i] = t /\ \A j \in (i+1)..Len(s) : s[j] # t
    ELSE 0

\* Position of the first occurrence of a token of T in s, Len(s)+1 when none.
FirstIndexIn(s, T) ==
    IF \E i \in 1..Len(s) : s[i] \in T
    THEN CHOOSE i \in 1..Len(s) : s[i] \in T /\ \A j \in 1..(i-1) : s[j] \notin T
    ELSE Len(s) + 1

\* Flatten a sequence of sequences.
RECURSIVE Concat(_)
Concat(ss) == IF ss = <<>> THEN <<>> ELSE Head(ss) \o Concat(Tail(ss))

\* sep.join(parts), for parts that are token sequences.
RECURSIVE Join(_, _)
Join(sep, parts) ==
    IF parts = <<>> THEN <<>>
    ELSE IF Len(parts) = 1 THEN parts[1]
    ELSE parts[1] \o <<sep>> \o Join(sep, Tail(parts))

(***************************************************************************)
(* URLs.  A URL is <<"h">> (scheme and host) followed by path tokens:      *)
(* "/" , a name chunk, the chunk ".html", and "?" starting the query.      *)
(***************************************************************************)
MaxPathLen == 4

AllUrls == {<<"h">> \o p : p \in SeqsUpTo({"/", "d", "s", ".html", "?"}, MaxPathLen)}

\* urlparse(url).path: what follows the host, up to the query or fragment.
urlparse_path(url) ==
    LET rest == Tail(url)
    IN  SubSeq(rest, 1, FirstIndexIn(rest, {"?", "#"}) - 1)

\* os.path.basename(path): what follows the last "/".
os_path_basename(path) == SubSeq(path, LastIndexOf(path, "/") + 1, Len(path))

\* str.rstrip("/")
rstrip_slash(path) ==
    LET keep == {i \in 1..Len(path) : path[i] # "/"}
        n    == IF keep = {} THEN 0 ELSE CHOOSE i \in keep : \A j \in keep : j <= i
    IN  SubSeq(path, 1, n)

\* str.replace(".html", "")
replace_html(seg) == SelectSeq(seg, LAMBDA t : t # ".html")

\* download_fr_htmls.py: url_to_filename
url_to_filename(url) == os_path_basename(urlparse_path(url))

\* extract_dfars_sections_ndaa.py: _extract_doc_id_from_url
\* (the url is already stripped by its caller; an empty url gives None)
_extract_doc_id_from_url(url) ==
    IF url = <<>> THEN None
    ELSE LET last_segment == os_path_basename(rstrip_slash(urlparse_path(url)))
             doc_id       == replace_html(last_segment)
         IN  IF doc_id # <<>> THEN doc_id ELSE None

\* html_dir / f"{doc_id}.html"
html_file_name(doc_id) == doc_id \o <<".html">>

(***************************************************************************)
(* Document Fetcher (download_fr_htmls.py)                                 *)
(***************************************************************************)
MaxRows == 2

U1 == <<"h", "/", "d", "/", "d", ".html">>
U2 == <<"h", "/", "s", "/", "d", ".html">>
U3 == <<"h", "/", "d", "/", "s", ".html">>
FetchUrls == {U1, U2, U3}

\* read_csv gives NaN for an empty cell; any other cell is its lines
\* (the cell split at "\n"), a line being a url or blank.
NaN == <<(<<"<NaN>">>)>>
Blank == <<>>
UrlCells == {NaN, <<U1>>, <<U3>>, <<U1, U2>>, <<U3, Blank, U1>>, <<U2, U2>>}

\* urls = [u.strip() for u in str(url_cell).split("\n") if u.strip()]
cell_urls(url_cell) ==
    IF url_cell = NaN THEN <<>> ELSE SelectSeq(url_cell, LAMBDA u : u # Blank)

FileNames == {url_to_filename(u) : u \in FetchUrls}

\* A file of OUTPUT_DIR: not there, there with size 0, or its content.
Missing == <<"missing">>
Empty == <<"empty">>

\* The mutant keeps every url, seen or not.
RECURSIVE collect_urls_nodedup(_, _, _)
collect_urls_nodedup(urls, seen_urls, acc) ==
    IF urls = <<>> THEN acc
    ELSE collect_urls_nodedup(Tail(urls), seen_urls \cup {Head(urls)},
                              Append(acc, <<Head(urls), url_to_filename(Head(urls))>>))

\* Lines 46-52 over the urls of all rows in order: skip a url already seen,
\* else remember it and append (url, filepath).
RECURSIVE collect_urls(_, _, _)
collect_urls(urls, seen_urls, acc) ==
    IF urls = <<>> THEN acc
    ELSE IF Head(urls) \in seen_urls
         THEN collect_urls(Tail(urls), seen_urls, acc)
         ELSE collect_urls(Tail(urls), seen_urls \cup {Head(urls)},
                           Append(acc, <<Head(urls), url_to_filename(Head(urls))>>))

\* The urls of all cells, rows in order.
all_cell_urls(df) == Concat([r \in 1..Len(df) |-> cell_urls(df[r])])

\* The mutant never finds a file already downloaded.
already_downloaded_never(fs, filepath) == FALSE

\* os.path.exists(filepath) and os.path.getsize(filepath) > 0
already_downloaded(fs, filepath) == fs[filepath] \notin {Missing, Empty}

\* What requests.get + raise_for_status + write can do to the target file:
\* raise (file untouched), or write response.text, which may be empty.
DownloadOutcomes == {"error", "text", "emptytext"}

FetchInit ==
    /\ Idle("fetch")
    /\ f_pc = "collect"
    /\ f_df \in SeqsUpTo(UrlCells, MaxRows)
    /\ download_list = <<>>
    /\ f_i = 1
    /\ files0 \in [FileNames -> {Missing, Empty, <<"old">>}]
    /\ files = files0
    /\ success = 0
    /\ failed = 0
    /\ f_requests = <<>>
    /\ f_visited = <<>>

\* Lines 36-54: build download_list.
FetchCollect ==
    /\ Frame("fetch")
    /\ f_pc = "collect"
    /\ download_list' = collect_urls(all_cell_urls(f_df), {}, <<>>)
    /\ f_pc' = "loop"
    /\ UNCHANGED <<f_df, f_i, files, files0, success, failed, f_requests, f_visited>>

\* Lines 58-63: the entry's file is there and not empty.
FetchSkip ==
    /\ Frame("fetch")
    /\ f_pc = "loop"
    /\ f_i <= Len(download_list)
    /\ already_downloaded(files, download_list[f_i][2])
    /\ success' = success + 1
    /\ f_visited' = Append(f_visited, <<download_list[f_i][1], "exists">>)
    /\ f_i' = f_i + 1
    /\ UNCHANGED <<f_pc, f_df, download_list, files, files0, failed, f_requests>>

\* Lines 65-71 with download_html (lines 11-21).
FetchDownload ==
    /\ Frame("fetch")
    /\ f_pc = "loop"
    /\ f_i <= Len(download_list)
    /\ ~already_downloaded(files, download_list[f_i][2])
    /\ LET url      == download_list[f_i][1]
           filepath == download_list[f_i][2]
       IN  /\ f_requests' = Append(f_requests, url)
           /\ \E outcome \in DownloadOutcomes :
                /\ f_visited' = Append(f_visited, <<url, outcome>>)
                /\ files' = CASE outcome = "error"     -> files
                               [] outcome = "text"      ->
                                    [files EXCEPT ![filepath] = <<"body", url>>]
                               [] outcome = "emptytext" ->
                                    [files EXCEPT ![filepath] = Empty]
                /\ success' = IF outcome = "error" THEN success ELSE success + 1
                /\ failed' = IF outcome = "error" THEN failed + 1 ELSE failed
    /\ f_i' = f_i + 1
    /\ UNCHANGED <<f_pc, f_df, download_list, files0>>

\* Line 73: the loop is over.
FetchDone ==
    /\ Frame("fetch")
    /\ f_pc = "loop"
    /\ f_i > Len(download_list)
    /\ f_pc' = "done"
    /\ UNCHANGED <<f_df, download_list, f_i, files, files0, success, failed,
                   f_requests, f_visited>>

FetchNext == FetchCollect \/ FetchSkip \/ FetchDownload \/ FetchDone

(***************************************************************************)
(* The Document Fetcher's claims                                           *)
(***************************************************************************)
UniqueUrls == Range(all_cell_urls(f_df))

AllTargetsPresent ==
    \A u \in UniqueUrls : files0[url_to_filename(u)] \notin {Missing, Empty}

CountIn(s, P(_)) == Cardinality({i \in 1..Len(s) : P(s[i])})

\* C1: a run that starts with every target file present and non-empty issues
\* no request, leaves every file as it was, counts no failure, and ends with
\* success equal to the number of unique urls of the column.
C1_FetchIdempotent ==
    (f_pc # "off" /\ AllTargetsPresent) =>
        /\ f_requests = <<>>
        /\ files = files0
        /\ failed = 0
        /\ (f_pc = "done" => success = Cardinality(UniqueUrls))

C1_Witness ==
    /\ f_pc = "done"
    /\ AllTargetsPresent
    /\ Cardinality(UniqueUrls) >= 2
    /\ success = Cardinality(UniqueUrls)

\* C6 (amended): every entry of the deduplicated url list is visited exactly
\* once whatever happened to the earlier ones, every url is requested at
\* most once and only when visited, a failed request counts in failed and the
\* loop goes on, and at the end success + failed is the number of unique
\* urls.
C6_FailureIsolation ==
    f_pc # "off" =>
        /\ \A u \in FetchUrls : CountIn(f_requests, LAMBDA r : r = u) <= 1
        /\ \A u \in FetchUrls : CountIn(f_visited, LAMBDA v : v[1] = u) <= 1
        /\ failed = CountIn(f_visited, LAMBDA v : v[2] = "error")
        /\ success = CountIn(f_visited, LAMBDA v : v[2] # "error")
        /\ Len(f_requests) = CountIn(f_visited, LAMBDA v : v[2] # "exists")
        /\ (f_pc = "done" =>
              /\ {v[1] : v \in Range(f_visited)} = UniqueUrls
              /\ Len(f_visited) = Cardinality(UniqueUrls)
              /\ success + failed = Cardinality(UniqueUrls))

\* A failed entry followed by an entry that was downloaded.
C6_Witness ==
    /\ f_pc = "done"
    /\ \E i, j \in 1..Len(f_visited) :
          i < j /\ f_visited[i][2] = "error" /\ f_visited[j][2] = "text"

\* C6 as claimed: besides the above, each missing target file is requested
\* at most once.
C6_OncePerTargetFile ==
    /\ C6_FailureIsolation
    /\ \A fn \in FileNames :
          CountIn(f_requests, LAMBDA r : url_to_filename(r) = fn) <= 1

(***************************************************************************)
(* From the Resolver's stored url to the file the Fetcher writes and the   *)
(* file the Extractor opens.                                               *)
(***************************************************************************)
\* A body_html_url of the API: .../<document number>.html
IsBodyHtmlUrl(u) ==
    LET p == Tail(u) n == Len(Tail(u))
    IN  /\ n >= 3
        /\ p[1] = "/" /\ p[n] = ".html" /\ p[n-1] \in {"d", "s"} /\ p[n-2] = "/"
        /\ \A i \in 1..(n-1) : p[i] \in {"d", "s", "/"}

\* An html_url of the API: .../<document number>/<title slug>
IsHtmlUrl(u) ==
    LET p == Tail(u) n == Len(Tail(u))
    IN  /\ n >= 2
        /\ p[1] = "/" /\ p[n] \in {"d", "s"}
        /\ \A i \in 1..n : p[i] \in {"d", "s", "/"}

ApiDocUrls ==
    [body_html_url : {u \in AllUrls : IsBodyHtmlUrl(u)} \cup {<<>>},
     html_url      : {u \in AllUrls : IsHtmlUrl(u)}]

\* fetch_citation.py: doc.get("body_html_url", "") or doc.get("html_url", "")
stored_url(doc) ==
    IF doc.body_html_url # <<>> THEN doc.body_html_url ELSE doc.html_url

CrossInit ==
    /\ Idle("cross")
    /\ x_pc = "api"
    /\ x_doc \in ApiDocUrls
    /\ x_url = <<>> /\ x_written = <<>> /\ x_lookup = <<>>

\* Resolver: the matched result's url goes into the row.
CrossStore ==
    /\ Frame("cross")
    /\ x_pc = "api"
    /\ x_url' = stored_url(x_doc)
    /\ x_pc' = "stored"
    /\ UNCHANGED <<x_doc, x_written, x_lookup>>

\* Fetcher: filepath = os.path.join(OUTPUT_DIR, url_to_filename(url))
CrossFetch ==
    /\ Frame("cross")
    /\ x_pc = "stored"
    /\ x_written' = url_to_filename(x_url)
    /\ x_pc' = "fetched"
    /\ UNCHANGED <<x_doc, x_url, x_lookup>>

\* Extractor: html_file = html_dir / f"{doc_id}.html", no file for no doc_id
CrossExtract ==
    /\ Frame("cross")
    /\ x_pc = "fetched"
    /\ x_lookup' = LET doc_id == _extract_doc_id_from_url(x_url)
                   IN  IF doc_id = None THEN None ELSE html_file_name(doc_id)
    /\ x_pc' = "looked"
    /\ UNCHANGED <<x_doc, x_url, x_written>>

CrossNext == CrossStore \/ CrossFetch \/ CrossExtract

\* C5: for every url the Resolver can store, the file the Fetcher writes is
\* the file the Extractor opens.
C5_DocumentIdentity == x_pc = "looked" => x_written = x_lookup

\* What does hold: the two names agree for a body_html_url.
C5_BodyUrlIdentity ==
    (x_pc = "looked" /\ x_doc.body_html_url # <<>>) => x_written = x_lookup

(***************************************************************************)
(* Citation Resolver (fetch_citation.py)                                   *)
(***************************************************************************)
MaxResolverRows == 2

\* str.split(sep) for a separator that is one token.
RECURSIVE Split(_, _)
Split(s, sep) ==
    LET i == FirstIndexIn(s, {sep})
    IN  IF i > Len(s) THEN <<s>>
        ELSE <<SubSeq(s, 1, i - 1)>> \o Split(SubSeq(s, i + 1, Len(s)), sep)

\* parse_fr_date: "%m/%d/%y" first, then "%m/%d/%Y", else None.  A date
\* string is a token sequence such as <<"12", "/", "26", "/", "23">>; %y
\* reads 00-68 as 20xx and 69-99 as 19xx.
parse_fr_date(date_str) ==
    LET MonthPadded == ("12" :> "12") @@ ("6" :> "06")
        DayPadded   == ("26" :> "26") @@ ("27" :> "27")
        Year2Digits == ("23" :> "2023") @@ ("99" :> "1999")
        Year4Digits == {"2023", "2024"}
        strptime_mdy(years) ==
            /\ Len(date_str) = 5
            /\ date_str[2] = "/" /\ date_str[4] = "/"
            /\ date_str[1] \in DOMAIN MonthPadded
            /\ date_str[3] \in DOMAIN DayPadded
            /\ date_str[5] \in years
        strftime_iso(year) ==
            <<year, "-", MonthPadded[date_str[1]], "-", DayPadded[date_str[3]]>>
    IN  IF strptime_mdy(DOMAIN Year2Digits) THEN strftime_iso(Year2Digits[date_str[5]])
        ELSE IF strptime_mdy(Year4Digits) THEN strftime_iso(date_str[5])
        ELSE None

\* str(start_page) of a result.
py_str(n) == <<"1", "2", "3">>[n]

NoDoc == [start_page |-> 0, title |-> <<>>, body_html_url |-> <<>>, html_url |-> <<>>]
\* What one requests.get to the API can do: raise RequestException (ok is
\* FALSE) or return a result list.
Responses ==
    LET H1    == <<"h", "/", "d", "/", "s">>
        DocA  == [start_page |-> 1, title |-> <<"T1">>, body_html_url |-> U1, html_url |-> H1]
        DocA2 == [start_page |-> 1, title |-> <<"T1b">>, body_html_url |-> U3, html_url |-> H1]
        DocB  == [start_page |-> 2, title |-> <<"T2">>, body_html_url |-> <<>>, html_url |-> H1]
    IN  {[ok |-> FALSE, results |-> <<>>]} \cup
        {[ok |-> TRUE, results |-> rs] :
            rs \in {<<>>, <<DocB, DocA>>, <<DocA2, DocA>>}}

NARROW == "defense-acquisition-regulations-system"
BROAD == "defense-department"

\* for result in results: if str(result.get("start_page")) == page: return result
first_page_match(result_list, page) ==
    LET hits == {i \in 1..Len(result_list) : <<py_str(result_list[i].start_page)>> = page}
    IN  IF hits = {} THEN [found |-> FALSE, doc |-> NoDoc]
        ELSE [found |-> TRUE,
              doc |-> result_list[CHOOSE i \in hits : \A k \in hits : i <= k]]

\* fetch_citation_by_date_and_page with the broad query tried after a failed
\* narrow request as well.
fetch_citation_by_date_and_page_retry(citation, fr_date, resp1, resp2) ==
    LET parts    == Split(citation, " FR ")
        page     == parts[2]
        iso_date == parse_fr_date(fr_date)
        nomatch  == [found |-> FALSE, doc |-> NoDoc]
        req2     == <<<<NARROW, iso_date>>, <<BROAD, iso_date>>>>
    IN  IF Len(parts) # 2 THEN nomatch @@ [requests |-> <<>>]
        ELSE IF iso_date = None THEN nomatch @@ [requests |-> <<>>]
        ELSE IF resp1.ok /\ first_page_match(resp1.results, page).found
        THEN first_page_match(resp1.results, page) @@ [requests |-> <<<<NARROW, iso_date>>>>]
        ELSE IF ~resp2.ok THEN nomatch @@ [requests |-> req2]
        ELSE first_page_match(resp2.results, page) @@ [requests |-> req2]

\* fetch_citation_by_date_and_page, given what the two requests would answer.
\* Returns the document (found) and the requests made, (agency, date) each.
fetch_citation_by_date_and_page(citation, fr_date, resp1, resp2) ==
    LET parts    == Split(citation, " FR ")
        page     == parts[2]
        iso_date == parse_fr_date(fr_date)
        nomatch  == [found |-> FALSE, doc |-> NoDoc]
        req1     == <<<<NARROW, iso_date>>>>
        req2     == <<<<NARROW, iso_date>>, <<BROAD, iso_date>>>>
    IN  IF Len(parts) # 2 THEN nomatch @@ [requests |-> <<>>]
        ELSE IF iso_date = None THEN nomatch @@ [requests |-> <<>>]
        ELSE IF ~resp1.ok THEN nomatch @@ [requests |-> req1]
        ELSE IF first_page_match(resp1.results, page).found
        THEN first_page_match(resp1.results, page) @@ [requests |-> req1]
        ELSE IF ~resp2.ok THEN nomatch @@ [requests |-> req2]
        ELSE first_page_match(resp2.results, page) @@ [requests |-> req2]

\* The (frn_citation, fr_date) cells of a row: NaN for an empty cell, else the
\* cell's lines; a Blank line is whitespace only.
ResolverRows ==
    LET Cit1   == <<"88", " FR ", "1">>
        Cit2   == <<"88", " FR ", "2">>
        Cit3   == <<"88", " FR ", "3">>
        CitBad == <<"88", "FR", "1">>
        Date1  == <<"12", "/", "26", "/", "23">>
        Date2  == <<"6", "/", "27", "/", "2024">>
    IN  { <<NaN, NaN>>,
          <<(<<Cit1>>), (<<Date1>>)>>,
          <<(<<Cit1>>), NaN>>,
          <<(<<Cit1, CitBad>>), (<<Date2>>)>>,
          <<(<<Cit2, Blank, Cit3>>), (<<Date1, Date2>>)>>,
          <<(<<Cit3, Cit1, Cit2>>), (<<Date2, Blank, Date1>>)>>,
          <<(<<Cit2>>), (<<Date1, Date2>>)>>,
          <<(<<Blank>>), (<<Date1>>)>>,
          <<(<<Cit1, Cit2>>), (<<Blank>>)>> }

\* str(cell).strip() split at "\n", each line stripped, empty lines dropped.
\* str(NaN) is "nan".
cell_lines(cell) ==
    IF cell = NaN THEN <<(<<"nan">>)>> ELSE SelectSeq(cell, LAMBDA l : l # Blank)

\* pd.isna(citation_cell) or str(citation_cell).strip() == ""
citation_cell_empty(cell) == cell = NaN \/ \A i \in 1..Len(cell) : cell[i] = Blank

\* while len(individual_dates) < len(individual_citations):
\*     individual_dates.append(individual_dates[-1])
\* (called with at least one date)
RECURSIVE pad_dates(_, _)
pad_dates(dates, n) ==
    IF Len(dates) < n THEN pad_dates(Append(dates, dates[Len(dates)]), n) ELSE dates

ResolveInit ==
    /\ Idle("resolve")
    /\ r_pc = "row"
    /\ dfars_df \in SeqsUpTo(ResolverRows, MaxResolverRows)
    /\ r_idx = 1
    /\ individual_citations = <<>> /\ individual_dates = <<>> /\ r_j = 0
    /\ row_titles = <<>> /\ row_urls = <<>>
    /\ fr_titles = <<>> /\ fr_html_urls = <<>>
    /\ r_log = <<>>

\* Lines 110-114: an empty citation cell.
ResolveSkipRow ==
    /\ Frame("resolve")
    /\ r_pc = "row" /\ r_idx <= Len(dfars_df)
    /\ citation_cell_empty(dfars_df[r_idx][1])
    /\ fr_titles' = Append(fr_titles, <<>>)
    /\ fr_html_urls' = Append(fr_html_urls, <<>>)
    /\ r_log' = Append(r_log, <<>>)
    /\ r_idx' = r_idx + 1
    /\ UNCHANGED <<r_pc, dfars_df, individual_citations, individual_dates, r_j,
                   row_titles, row_urls>>

\* Lines 116-128: split the cells and pad the dates.
ResolveStartRow ==
    /\ Frame("resolve")
    /\ r_pc = "row" /\ r_idx <= Len(dfars_df)
    /\ ~citation_cell_empty(dfars_df[r_idx][1])
    /\ LET cits  == cell_lines(dfars_df[r_idx][1])
           dates == cell_lines(dfars_df[r_idx][2])
       IN  /\ individual_citations' = cits
           /\ r_log' = Append(r_log, <<>>)
           /\ IF Len(dates) < Len(cits) /\ dates = <<>>
              THEN \* individual_dates[-1] of an empty list: IndexError
                   /\ r_pc' = "crashed"
                   /\ individual_dates' = dates
              ELSE /\ r_pc' = "cite"
                   /\ individual_dates' = pad_dates(dates, Len(cits))
    /\ r_j' = 1
    /\ row_titles' = <<>> /\ row_urls' = <<>>
    /\ UNCHANGED <<dfars_df, r_idx, fr_titles, fr_html_urls>>

\* Lines 130-144: one turn of the loop over zip(citations, dates).
ResolveCitation ==
    /\ Frame("resolve")
    /\ r_pc = "cite" /\ r_j <= Len(individual_citations)
    /\ \E resp1 \in Responses, resp2 \in Responses :
          LET citation == individual_citations[r_j]
              date     == individual_dates[r_j]
              res      == fetch_citation_by_date_and_page(citation, date, resp1, resp2)
          IN  /\ IF res.found
                 THEN /\ row_titles' = Append(row_titles, res.doc.title)
                      /\ row_urls' = Append(row_urls, stored_url(res.doc))
                 ELSE /\ row_titles' = Append(row_titles, <<"Not Found">>)
                      /\ row_urls' = Append(row_urls, <<>>)
              /\ r_log' = [r_log EXCEPT ![r_idx] =
                              Append(@, [citation |-> citation, date |-> date,
                                         requests |-> res.requests,
                                         found |-> res.found, doc |-> res.doc])]
    /\ r_j' = r_j + 1
    /\ UNCHANGED <<r_pc, dfars_df, r_idx, individual_citations, individual_dates,
                   fr_titles, fr_html_urls>>

\* Lines 146-148: join the row's results.
ResolveEndRow ==
    /\ Frame("resolve")
    /\ r_pc = "cite" /\ r_j > Len(individual_citations)
    /\ fr_titles' = Append(fr_titles, Join("\n", row_titles))
    /\ fr_html_urls' = Append(fr_html_urls, Join("\n", row_urls))
    /\ r_idx' = r_idx + 1
    /\ r_pc' = "row"
    /\ UNCHANGED <<dfars_df, individual_citations, individual_dates, r_j,
                   row_titles, row_urls, r_log>>

\* Lines 150-154: the columns are added and the CSV is written.
ResolveSave ==
    /\ Frame("resolve")
    /\ r_pc = "row" /\ r_idx > Len(dfars_df)
    /\ r_pc' = "done"
    /\ UNCHANGED <<dfars_df, r_idx, individual_citations, individual_dates, r_j,
                   row_titles, row_urls, fr_titles, fr_html_urls, r_log>>

ResolveNext ==
    ResolveSkipRow \/ ResolveStartRow \/ ResolveCitation \/ ResolveEndRow \/ ResolveSave

(***************************************************************************)
(* The Citation Resolver's claims                                          *)
(***************************************************************************)
ExpectedTitle(l) == IF l.found THEN l.doc.title ELSE <<"Not Found">>
ExpectedUrl(l) == IF l.found THEN stored_url(l.doc) ELSE <<>>

\* Row i, once appended, holds one entry per citation of its cell, in
\* citation order, "Not Found" and an empty url for an unresolved one.
RowHasSentinels(i) ==
    LET cits == cell_lines(dfars_df[i][1])
        k    == Len(cits)
    IN  /\ Len(r_log[i]) = k
        /\ \A j \in 1..k : r_log[i][j].citation = cits[j]
        /\ fr_titles[i] = Join("\n", [j \in 1..k |-> ExpectedTitle(r_log[i][j])])
        /\ fr_html_urls[i] = Join("\n", [j \in 1..k |-> ExpectedUrl(r_log[i][j])])

C4_SentinelsWhileRunning ==
    /\ Len(fr_titles) = Len(fr_html_urls)
    /\ \A i \in 1..Len(fr_titles) :
          ~citation_cell_empty(dfars_df[i][1]) => RowHasSentinels(i)
    /\ (r_pc = "done" => Len(fr_titles) = Len(dfars_df))

\* The lookups of row i use date j for citation j up to the d dates listed
\* and the last listed date after that.
RowReusesLastDate(i) ==
    LET dates == cell_lines(dfars_df[i][2])
        d     == Len(dates)
    IN  \A j \in 1..Len(r_log[i]) :
            r_log[i][j].date = IF j <= d THEN dates[j] ELSE dates[d]

FewerDatesThanCitations(i) ==
    Len(cell_lines(dfars_df[i][2])) < Len(cell_lines(dfars_df[i][1]))

C10_DateReuseWhenDated ==
    \A i \in 1..Len(r_log) :
        (r_log[i] # <<>> /\ FewerDatesThanCitations(i)) => RowReusesLastDate(i)

(***************************************************************************)
(* fetch_citation_by_date_and_page as a function of one citation, one date *)
(* and what the API answers to the narrow and to the broad query.          *)
(***************************************************************************)
QueryInit ==
    /\ Idle("query")
    /\ q_pc = "args"
    /\ q_citation \in UNION {Range(cell_lines(r[1])) : r \in ResolverRows}
                      \cup {<<"88", " FR ", "1", " FR ", "2">>}
    /\ q_date \in UNION {Range(cell_lines(r[2])) : r \in ResolverRows}
    /\ q_resp1 \in Responses
    /\ q_resp2 \in Responses
    /\ q_result = <<>>

\* fetch_citation_by_date_and_page(citation, fr_date) (lines 18-94)
QueryCall ==
    /\ Frame("query")
    /\ q_pc = "args"
    /\ q_pc' = "done"
    /\ q_result' = fetch_citation_by_date_and_page(q_citation, q_date, q_resp1, q_resp2)
    /\ UNCHANGED <<q_citation, q_date, q_resp1, q_resp2>>

QueryNext == QueryCall

(***************************************************************************)
(* Resolver query ordering                                                 *)
(***************************************************************************)
Parseable(citation, fr_date) ==
    Len(Split(citation, " FR ")) = 2 /\ parse_fr_date(fr_date) # None

\* The results of an answered query whose start_page, as a string, is the
\* page of the citation.
PageHits(resp, citation) ==
    IF ~resp.ok THEN {}
    ELSE {i \in 1..Len(resp.results) :
             <<py_str(resp.results[i].start_page)>> = Split(citation, " FR ")[2]}

FirstHit(resp, citation) ==
    resp.results[CHOOSE i \in PageHits(resp, citation) :
                    \A k \in PageHits(resp, citation) : i <= k]

AgenciesAsked(res) == [k \in 1..Len(res.requests) |-> res.requests[k][1]]

\* C14: no request for an unparseable citation or date; otherwise the narrow
\* query first, the broad query only after the narrow one was answered
\* without a result on the citation's page; at most two requests; the
\* result is the first page match of the earliest query that has one, or
\* none.
C14_QueryOrdering ==
    q_pc = "done" =>
        LET asked == AgenciesAsked(q_result)
            hits1 == PageHits(q_resp1, q_citation)
            hits2 == PageHits(q_resp2, q_citation)
        IN  /\ ~Parseable(q_citation, q_date) => asked = <<>> /\ ~q_result.found
            /\ Parseable(q_citation, q_date) => asked # <<>> /\ asked[1] = NARROW
            /\ Len(asked) <= 2
            /\ \A k \in 1..Len(asked) :
                  asked[k] = BROAD
                  => /\ k = 2 /\ asked[1] = NARROW
                     /\ q_resp1.ok /\ hits1 = {}
            /\ \A k \in 2..Len(asked) : asked[k] = BROAD
            /\ IF asked # <<>> /\ hits1 # {}
               THEN q_result.found /\ q_result.doc = FirstHit(q_resp1, q_citation)
               ELSE IF BROAD \in Range(asked) /\ hits2 # {}
               THEN q_result.found /\ q_result.doc = FirstHit(q_resp2, q_citation)
               ELSE ~q_result.found

\* A citation the narrow query answered with documents of other pages only
\* and the broad query answered with a document of its page: that document
\* is returned after two requests.
C14_Witness ==
    /\ q_pc = "done"
    /\ Parseable(q_citation, q_date)
    /\ q_resp1.ok /\ q_resp1.results # <<>> /\ PageHits(q_resp1, q_citation) = {}
    /\ PageHits(q_resp2, q_citation) # {}
    /\ AgenciesAsked(q_result) = <<NARROW, BROAD>>
    /\ q_result.found /\ q_result.doc = FirstHit(q_resp2, q_citation)

(***************************************************************************)
(* Statute Text Joiner (add_ndaa_text.py)                                  *)
(*                                                                         *)
(* Year and section strings are sequences of the tokens "FY", a digit,     *)
(* "(", ")" and a letter.                                                  *)
(***************************************************************************)
MaxLookups == 2
MaxJoinRows == 3

DigitTokens == <<"0", "1", "2", "3", "4", "5", "6", "7", "8", "9">>
DigitVal(t) == (CHOOSE i \in 1..10 : DigitTokens[i] = t) - 1

\* The match of \d+ at the start of s: the longest prefix of digits.
leading_digits(s) ==
    SubSeq(s, 1, FirstIndexIn(s, Range(s) \ Range(DigitTokens)) - 1)

\* int(digits)
RECURSIVE py_int(_)
py_int(digits) ==
    IF digits = <<>> THEN 0
    ELSE 10 * py_int(SubSeq(digits, 1, Len(digits) - 1)) + DigitVal(digits[Len(digits)])

\* str(n) for n >= 0, as digit tokens
RECURSIVE int_str(_)
int_str(n) ==
    IF n < 10 THEN <<DigitTokens[n + 1]>>
    ELSE int_str(n \div 10) \o <<DigitTokens[(n % 10) + 1]>>

NoYear == -1

\* parse_fy: "FY24" -> 2024, "FY2024" -> 2024, no match -> None (NoYear)
parse_fy(fy_str) ==
    IF fy_str # <<>> /\ Head(fy_str) = "FY" /\ leading_digits(Tail(fy_str)) # <<>>
    THEN LET num == py_int(leading_digits(Tail(fy_str)))
         IN  IF num < 100 THEN 2000 + num ELSE num
    ELSE NoYear

\* parse_section_enum: "831(a)(2)" -> "831.", no leading digit -> None
parse_section_enum(section_str) ==
    IF leading_digits(section_str) = <<>> THEN None
    ELSE leading_digits(section_str) \o <<".">>

\* ndaa_utils (not among the source files): a year's file is a list of
\* entries, each an enum and a text; load_ndaa raises FileNotFoundError when
\* the year has no file; find_sections keeps the entries with the enum;
\* get_section_text_flat gives an entry's text.
NoFile == [exists |-> FALSE, entries |-> <<>>]
YearFile(entries) == [exists |-> TRUE, entries |-> entries]

load_ndaa(fs, fy) == fs[fy]

find_sections(ndaa, enum) == SelectSeq(ndaa, LAMBDA e : e.enum = enum)

get_section_text_flat(section) == section.text

\* The error markers of lookup_ndaa_text.
MarkerBadYear(fy_str) == <<"[", "Error: could not parse FY from '">> \o fy_str \o <<"']">>
MarkerNoFile(fy) == <<"[", "Error: NDAA JSON not found for FY">> \o int_str(fy) \o <<"]">>
\* A cache entry: the year's loaded document, or None for a missing file.
CachedNone == [doc |-> FALSE, entries |-> <<>>]
CachedDoc(entries) == [doc |-> TRUE, entries |-> entries]

\* The part of lookup_ndaa_text after the year's document is known.
lookup_in_document(ndaa, fy, section_str) ==
    LET enum     == parse_section_enum(section_str)
        sections == find_sections(ndaa, enum)
    IN  IF enum = None
        THEN <<"[", "Error: could not parse section from '">> \o section_str \o <<"']">>
        ELSE IF sections = <<>>
        THEN <<"[", "Not found: FY">> \o int_str(fy) \o <<" section ">> \o section_str \o <<"]">>
        ELSE get_section_text_flat(sections[1])

\* The mutant returns the missing-file marker without caching None.
lookup_ndaa_text_norecord(fs, cache, fy_str, section_str) ==
    LET fy == parse_fy(fy_str)
    IN  IF fy = NoYear
        THEN [raised |-> FALSE, text |-> MarkerBadYear(fy_str), cache |-> cache]
        ELSE IF fy \notin DOMAIN cache /\ ~load_ndaa(fs, fy).exists
        THEN [raised |-> FALSE, text |-> MarkerNoFile(fy), cache |-> cache]
        ELSE LET cache2 == IF fy \in DOMAIN cache THEN cache
                           ELSE (fy :> CachedDoc(load_ndaa(fs, fy).entries)) @@ cache
             IN  IF ~cache2[fy].doc
                 THEN [raised |-> FALSE, text |-> MarkerNoFile(fy), cache |-> cache2]
                 ELSE [raised |-> FALSE, cache |-> cache2,
                       text |-> lookup_in_document(cache2[fy].entries, fy, section_str)]

\* lookup_ndaa_text(ndaa_cache, fy_str, section_str) with the year files fs:
\* whether it raised, the text returned, and the cache afterwards.
lookup_ndaa_text(fs, cache, fy_str, section_str) ==
    LET fy == parse_fy(fy_str)
    IN  IF fy = NoYear
        THEN [raised |-> FALSE, text |-> MarkerBadYear(fy_str), cache |-> cache]
        ELSE IF fy \notin DOMAIN cache /\ ~load_ndaa(fs, fy).exists
        THEN \* FileNotFoundError, caught: None is cached
             [raised |-> FALSE, text |-> MarkerNoFile(fy),
              cache |-> (fy :> CachedNone) @@ cache]
        ELSE LET cache2 == IF fy \in DOMAIN cache THEN cache
                           ELSE (fy :> CachedDoc(load_ndaa(fs, fy).entries)) @@ cache
             IN  IF ~cache2[fy].doc
                 THEN [raised |-> FALSE, text |-> MarkerNoFile(fy), cache |-> cache2]
                 ELSE [raised |-> FALSE, cache |-> cache2,
                       text |-> lookup_in_document(cache2[fy].entries, fy, section_str)]

\* Inputs.
FY24 == <<"FY", "2", "4">>
YearStrs == {FY24, <<"FY", "2", "0", "2", "4">>, <<"FY", "1", "0">>, <<"2", "4">>, <<"FY">>}

Sec831a == <<"8", "3", "1", "(", "a", ")">>
SectionStrs == {Sec831a, <<"2", "8", "8", "1">>, <<"(", "a", ")">>, <<>>}

Years == {2010, 2024}
Entry831 == [enum |-> <<"8", "3", "1", ".">>, text |-> <<"SEC. 831. FIRST">>]
YearFiles ==
    LET Entry831b == [enum |-> <<"8", "3", "1", ".">>, text |-> <<"SEC. 831. SECOND">>]
        Entry2881 == [enum |-> <<"2", "8", "8", "1", ".">>, text |-> <<"SEC. 2881.">>]
    IN  {NoFile, YearFile(<<Entry2881, Entry831, Entry831b>>), YearFile(<<Entry831b>>)}

(***************************************************************************)
(* lookup_ndaa_text called one call after another on one cache, while year *)
(* files may appear on disk between calls.                                 *)
(***************************************************************************)
LookupInit ==
    /\ Idle("lookup")
    /\ ndaa_files \in [Years -> YearFiles]
    /\ ndaa_cache = <<>>
    /\ l_hist = <<>>

LookupCall ==
    /\ Frame("lookup")
    /\ Len(l_hist) < MaxLookups
    /\ \E fy_str \in YearStrs, section_str \in SectionStrs :
          LET r == lookup_ndaa_text(ndaa_files, ndaa_cache, fy_str, section_str)
          IN  /\ ndaa_cache' = r.cache
              /\ l_hist' = Append(l_hist, [fy_str |-> fy_str, section_str |-> section_str,
                                           raised |-> r.raised, text |-> r.text])
    /\ UNCHANGED ndaa_files

\* Another process writes a year's file.
YearFileAppears ==
    /\ Frame("lookup")
    /\ \E fy \in Years :
          /\ ~ndaa_files[fy].exists
          /\ ndaa_files' = [ndaa_files EXCEPT ![fy] = YearFile(<<Entry831>>)]
    /\ UNCHANGED <<ndaa_cache, l_hist>>

LookupNext == LookupCall \/ YearFileAppears

StatuteTexts ==
    {e.text : e \in UNION {Range(f.entries) : f \in YearFiles \cup {YearFile(<<Entry831>>)}}}

\* C3: lookup_ndaa_text never raises and never returns an empty value: it
\* returns a non-empty statute text or a text that begins with "[", and once
\* it has answered with a year's missing-file marker, None is cached for the
\* year and every later call for the year answers with the same marker.
C3_LookupTotal ==
    /\ \A i \in 1..Len(l_hist) :
          /\ ~l_hist[i].raised
          /\ l_hist[i].text # <<>>
          /\ Head(l_hist[i].text) = "[" \/ l_hist[i].text \in StatuteTexts
    /\ \A i \in 1..Len(l_hist) :
          LET fy == parse_fy(l_hist[i].fy_str)
          IN  (fy # NoYear /\ l_hist[i].text = MarkerNoFile(fy)) =>
                 /\ fy \in DOMAIN ndaa_cache /\ ndaa_cache[fy] = CachedNone
                 /\ \A k \in (i+1)..Len(l_hist) :
                       parse_fy(l_hist[k].fy_str) = fy =>
                           l_hist[k].text = MarkerNoFile(fy)

\* A year answered as missing, its file appearing, and the year asked again.
C3_Witness ==
    \E i, k \in 1..Len(l_hist) :
        /\ i < k
        /\ parse_fy(l_hist[i].fy_str) = 2024
        /\ parse_fy(l_hist[k].fy_str) = 2024
        /\ l_hist[i].text = MarkerNoFile(2024)
        /\ l_hist[k].text = MarkerNoFile(2024)
        /\ ndaa_files[2024].exists

(***************************************************************************)
(* The Joiner's main(): from the rows read to the rows with ndaa_text.     *)
(***************************************************************************)
JoinPairs ==
    { <<FY24, Sec831a>>, <<(<<"FY", "2", "0", "2", "4">>), Sec831a>>,
      <<(<<"FY", "1", "0">>), (<<"2", "8", "8", "1">>)>>,
      <<(<<"2", "4">>), Sec831a>>, <<FY24, (<<"(", "a", ")">>)>> }

\* A row of csv.DictReader: column name -> value.
JoinRow(pair) == [ndaa_year |-> pair[1], ndaa_section |-> pair[2]]

row_key(row) == <<row.ndaa_year, row.ndaa_section>>

\* Python's order on strings, token by token.
TokenRank(t) ==
    LET TokenOrder == <<"(", ")", "0", "1", "2", "3", "4", "5", "6", "7", "8", "9", "FY", "a">>
    IN  CHOOSE i \in 1..Len(TokenOrder) : TokenOrder[i] = t

RECURSIVE StrLess(_, _)
StrLess(a, b) ==
    IF b = <<>> THEN FALSE
    ELSE IF a = <<>> THEN TRUE
    ELSE IF Head(a) = Head(b) THEN StrLess(Tail(a), Tail(b))
    ELSE TokenRank(Head(a)) < TokenRank(Head(b))

\* The first element of sorted(S).
first_sorted(S) ==
    LET PairLess(p, q) == StrLess(p[1], q[1]) \/ (p[1] = q[1] /\ StrLess(p[2], q[2]))
    IN  CHOOSE p \in S : \A q \in S \ {p} : PairLess(p, q)

\* The mutant leaves the last row out.
unique_pairs_of_but_last(rs) == {row_key(rs[i]) : i \in 1..(Len(rs) - 1)}

\* for row in rows: unique_pairs.add((row["ndaa_year"], row["ndaa_section"]))
unique_pairs_of(rs) == {row_key(rs[i]) : i \in 1..Len(rs)}

DefaultText == <<"[", "Error: lookup failed]">>

\* for row in rows: row["ndaa_text"] = text_cache.get(key, "[Error: lookup failed]")
fan_out(rs, cache) ==
    [i \in 1..Len(rs) |-> ("ndaa_text" :> IF row_key(rs[i]) \in DOMAIN cache
                                         THEN cache[row_key(rs[i])]
                                         ELSE DefaultText) @@ rs[i]]

JoinInit ==
    /\ Idle("join")
    /\ ndaa_files \in [Years -> YearFiles]
    /\ ndaa_cache = <<>>
    /\ j_pc = "read"
    /\ rows \in {[i \in 1..Len(ps) |-> JoinRow(ps[i])] : ps \in SeqsUpTo(JoinPairs, MaxJoinRows)}
    /\ unique_pairs = {}
    /\ text_cache = <<>>
    /\ j_calls = <<>>

\* Lines 88-96: the caches and the set of pairs.
JoinCollect ==
    /\ Frame("join")
    /\ j_pc = "read"
    /\ unique_pairs' = unique_pairs_of(rows)
    /\ j_pc' = "lookup"
    /\ UNCHANGED <<ndaa_files, ndaa_cache, rows, text_cache, j_calls>>

\* Lines 100-107: one turn of the loop over sorted(unique_pairs).
JoinLookup ==
    /\ Frame("join")
    /\ j_pc = "lookup" /\ unique_pairs # {}
    /\ LET pair == first_sorted(unique_pairs)
           r    == lookup_ndaa_text(ndaa_files, ndaa_cache, pair[1], pair[2])
       IN  /\ ndaa_cache' = r.cache
           /\ j_calls' = Append(j_calls, pair)
           /\ unique_pairs' = unique_pairs \ {pair}
           /\ IF r.raised
              THEN j_pc' = "crashed" /\ UNCHANGED text_cache
              ELSE j_pc' = j_pc /\ text_cache' = (pair :> r.text) @@ text_cache
    /\ UNCHANGED <<ndaa_files, rows>>

\* Lines 111-116: the texts go back to the rows.
JoinFanOut ==
    /\ Frame("join")
    /\ j_pc = "lookup" /\ unique_pairs = {}
    /\ rows' = fan_out(rows, text_cache)
    /\ j_pc' = "done"
    /\ UNCHANGED <<ndaa_files, ndaa_cache, unique_pairs, text_cache, j_calls>>

JoinNext == JoinCollect \/ JoinLookup \/ JoinFanOut

\* C2: after main() every row has one ndaa_text, two rows with the same
\* (ndaa_year, ndaa_section) have the same ndaa_text, lookup_ndaa_text was
\* called once per distinct pair, and no row holds the default
\* "[Error: lookup failed]".
C2_JoinConsistent ==
    j_pc = "done" =>
        /\ \A i \in 1..Len(rows) :
              /\ "ndaa_text" \in DOMAIN rows[i]
              /\ rows[i].ndaa_text # DefaultText
        /\ \A i, k \in 1..Len(rows) :
              row_key(rows[i]) = row_key(rows[k]) => rows[i].ndaa_text = rows[k].ndaa_text
        /\ \A i \in 1..Len(rows) :
              CountIn(j_calls, LAMBDA c : c = row_key(rows[i])) = 1
        /\ Len(j_calls) = Cardinality({row_key(rows[i]) : i \in 1..Len(rows)})

\* Three rows, two of them with one pair, and both a text and a marker.
C2_Witness ==
    /\ j_pc = "done"
    /\ Len(rows) = 3
    /\ Len(j_calls) = 2
    /\ \E i \in 1..3 : Head(rows[i].ndaa_text) # "["
    /\ \E i \in 1..3 : Head(rows[i].ndaa_text) = "["

(***************************************************************************)
(* Tracker Parser (parse_tracker.py)                                       *)
(*                                                                         *)
(* A cell of a table row is None or a string; a string is a sequence of    *)
(* chunks with the whitespace between them, " " and "\n".                  *)
(***************************************************************************)
MaxTableRows == 2
MinColumns == 17

\* (cell or "")
or_empty(cell) == IF cell = None THEN <<>> ELSE cell

\* str.strip()
py_strip(str) ==
    LET keep == {i \in 1..Len(str) : str[i] \notin {" ", "\n"}}
    IN  IF keep = {} THEN <<>>
        ELSE SubSeq(str, CHOOSE i \in keep : \A k \in keep : i <= k,
                         CHOOSE i \in keep : \A k \in keep : k <= i)

\* str.replace("\n", " ")
replace_newline(str) == [i \in 1..Len(str) |-> IF str[i] = "\n" THEN " " ELSE str[i]]

\* str.replace("FY ", "FY")
RECURSIVE replace_fy_space(_)
replace_fy_space(str) ==
    IF Len(str) < 2 THEN str
    ELSE IF str[1] = "FY" /\ str[2] = " "
         THEN <<"FY">> \o replace_fy_space(SubSeq(str, 3, Len(str)))
         ELSE <<str[1]>> \o replace_fy_space(Tail(str))

\* The cell at Python index i.
cell_at(row, i) == row[i + 1]

\* Lines 26-36: the fields read from a row.
f_ndaa_year(row) == replace_fy_space(replace_newline(py_strip(or_empty(cell_at(row, 0)))))
f_ndaa_section(row) == replace_newline(py_strip(or_empty(cell_at(row, 1))))
f_final_rule_frn(row) == py_strip(or_empty(cell_at(row, 14)))

tracker_record(row) ==
    [ndaa_year     |-> f_ndaa_year(row),
     ndaa_section  |-> f_ndaa_section(row),
     paragraph     |-> py_strip(or_empty(cell_at(row, 2))),
     section_title |-> replace_newline(py_strip(or_empty(cell_at(row, 3)))),
     status        |-> py_strip(or_empty(cell_at(row, 4))),
     case_number   |-> py_strip(or_empty(cell_at(row, 9))),
     frn_citation  |-> f_final_rule_frn(row),
     fr_date       |-> py_strip(or_empty(cell_at(row, 15)))]

YearSkips == {<<"NDAA", " ", "Year">>, <<"Column", " ", "1">>, <<"Column1">>, <<>>}
\* The mutant tests the year alone.
skipped_as_header_year_only(row) == f_ndaa_year(row) \in YearSkips

\* Lines 38-42: the condition of the "skip header rows" continue.
skipped_as_header(row) ==
    \/ f_ndaa_year(row) \in YearSkips
    \/ f_ndaa_section(row) \in {<<"NDAA", " ", "Section">>, <<"Column2">>, <<>>}
    \/ f_final_rule_frn(row) \in {<<"FRN", " ", "Citation">>, <<"Column15">>, <<"Final", " ", "Rule">>}

\* Lines 23-57 for one row: the records it adds to results.
row_records(row) ==
    IF Len(row) < MinColumns THEN <<>>
    ELSE IF skipped_as_header(row) THEN <<>>
    ELSE IF f_final_rule_frn(row) # <<>> THEN <<tracker_record(row)>>
    ELSE <<>>

\* Table rows: n cells, the year, section and citation cells given.
MkRow(n, year, section, frn) ==
    [i \in 1..n |-> CASE i = 1  -> year
                      [] i = 2  -> section
                      [] i = 15 -> frn
                      [] i = 16 -> <<"12/26/23", "\n">>
                      [] OTHER  -> <<"x">>]

TrackerRows ==
    LET CellFY24 == <<"FY", " ", "24">>
        Cell831  == <<"831", "\n", "(a)">>
        CellCit  == <<"88 FR 1">>
    IN  { MkRow(17, CellFY24, Cell831, CellCit),
          MkRow(18, <<"FY", "10", " ">>, Cell831, <<"88 FR 1", "\n", "89 FR 2">>),
          MkRow(16, CellFY24, Cell831, CellCit),
          MkRow(17, <<"NDAA", "\n", "Year">>, <<"NDAA", " ", "Section">>,
                <<"FRN", " ", "Citation">>),
          MkRow(17, None, Cell831, CellCit),
          MkRow(17, CellFY24, <<" ">>, CellCit),
          MkRow(17, CellFY24, Cell831, None),
          MkRow(17, CellFY24, Cell831, <<" ">>),
          MkRow(17, CellFY24, Cell831, <<"Final", " ", "Rule">>) }

ParseInit ==
    /\ Idle("parse")
    /\ p_pc = "rows"
    /\ p_table \in SeqsUpTo(TrackerRows, MaxTableRows)
    /\ p_i = 1
    /\ results = <<>>

\* One turn of "for row in table".
ParseRow ==
    /\ Frame("parse")
    /\ p_pc = "rows" /\ p_i <= Len(p_table)
    /\ results' = results \o row_records(p_table[p_i])
    /\ p_i' = p_i + 1
    /\ UNCHANGED <<p_pc, p_table>>

\* return results
ParseReturn ==
    /\ Frame("parse")
    /\ p_pc = "rows" /\ p_i > Len(p_table)
    /\ p_pc' = "done"
    /\ UNCHANGED <<p_table, p_i, results>>

ParseNext == ParseRow \/ ParseReturn

(***************************************************************************)
(* The Tracker Parser's claims                                             *)
(***************************************************************************)
\* The cells as the claim reads them: None is empty, whitespace around a
\* cell does not count, a newline inside a cell is a space.
CellText(cell) == replace_newline(py_strip(or_empty(cell)))

HeaderYear == {<<"NDAA", " ", "Year">>, <<"Column", " ", "1">>, <<"Column1">>}
HeaderSection == {<<"NDAA", " ", "Section">>, <<"Column2">>}
HeaderFrn == {<<"FRN", " ", "Citation">>, <<"Column15">>, <<"Final", " ", "Rule">>}

\* A repeated header row: a column holds its header sentinel.
IsHeaderRow(row) ==
    \/ CellText(row[1]) \in HeaderYear
    \/ CellText(row[2]) \in HeaderSection
    \/ py_strip(or_empty(row[15])) \in HeaderFrn

HasCitation(row) == py_strip(or_empty(row[15])) # <<>>

EmitsAsClaimed(row) == Len(row) >= 17 /\ ~IsHeaderRow(row) /\ HasCitation(row)

EmitsAsAmended(row) ==
    /\ Len(row) >= 17 /\ ~IsHeaderRow(row) /\ HasCitation(row)
    /\ replace_fy_space(CellText(row[1])) # <<>>
    /\ CellText(row[2]) # <<>>

RowsDone == SubSeq(p_table, 1, p_i - 1)

\* The citation column of the records, against the rows that should emit.
CitationsOf(recs) == [i \in 1..Len(recs) |-> recs[i].frn_citation]
CitationCells(rs) == [i \in 1..Len(rs) |-> py_strip(or_empty(rs[i][15]))]

\* C8: one record, in table order, for each row with at least 17 columns
\* that is no repeated header row and has a non-empty final-rule citation,
\* and no record for any other row.
C8_EmissionRule ==
    p_pc # "off" =>
        /\ Len(results) = Len(SelectSeq(RowsDone, EmitsAsClaimed))
        /\ CitationsOf(results) = CitationCells(SelectSeq(RowsDone, EmitsAsClaimed))

\* C8 (amended): one record, in table order, for each row with at least 17
\* columns that is no repeated header row, has a non-empty NDAA year cell and
\* a non-empty NDAA section cell, and has a non-empty final-rule citation,
\* and no record for any other row.
C8_EmissionRuleAmended ==
    p_pc # "off" =>
        /\ Len(results) = Len(SelectSeq(RowsDone, EmitsAsAmended))
        /\ CitationsOf(results) = CitationCells(SelectSeq(RowsDone, EmitsAsAmended))
        /\ \A i \in 1..Len(results) :
              /\ results[i].ndaa_year # <<>> /\ results[i].ndaa_section # <<>>
              /\ results[i].frn_citation # <<>>

\* Two rows, the first skipped for its empty year cell, the second emitted.
C8_Witness ==
    /\ p_pc = "done"
    /\ Len(p_table) = 2
    /\ or_empty(p_table[1][1]) = <<>> /\ HasCitation(p_table[1]) /\ Len(p_table[1]) >= 17
    /\ Len(results) = 1

(***************************************************************************)
(* Section Extractor (extract_dfars_sections_ndaa.py)                      *)
(*                                                                         *)
(* An HTML document is the sequence of its elements in document order:     *)
(* div.section elements, each with its child elements, and                 *)
(* p.amendment-part elements, all siblings.  A text is a sequence of words.*)
(***************************************************************************)
MaxNodes == 2
MaxExtractRows == 2

\* A child element of a div.section: its class, its id, its text.
Child(cls, id, text) == [cls |-> cls, id |-> id, text |-> text]

SectionNode(children) ==
    [tag |-> "section", children |-> children, text |-> <<>>, sub |-> FALSE]
\* sub: the paragraph holds a span.amendment-part-subnumber
PNode(text, sub) == [tag |-> "p", children |-> <<>>, text |-> text, sub |-> sub]

\* The first child of a class, as find("div", class_=...) returns it.
HasChild(node, cls) == \E i \in 1..Len(node.children) : node.children[i].cls = cls
FirstChild(node, cls) ==
    node.children[CHOOSE i \in 1..Len(node.children) :
                     /\ node.children[i].cls = cls
                     /\ \A k \in 1..(i-1) : node.children[k].cls # cls]

\* sec_id.replace("sectno-reference-", "").strip(); "" with no sectno div
section_num_of(node) ==
    IF ~HasChild(node, "sectno-reference") THEN <<>>
    ELSE py_strip(SelectSeq(FirstChild(node, "sectno-reference").id,
                            LAMBDA t : t # "sectno-reference-"))

\* The sections the loops do not skip: a sectno div and a section number.
IsNumberedSection(node) ==
    node.tag = "section" /\ HasChild(node, "sectno-reference") /\ section_num_of(node) # <<>>

\* _get_amendment_instruction: the nearest preceding amendment-part
\* paragraph with a text, "" when there is none.
_get_amendment_instruction(doc, i) ==
    LET prev == {k \in 1..(i-1) : doc[k].tag = "p" /\ doc[k].text # <<>>}
    IN  IF prev = {} THEN <<>>
        ELSE doc[CHOOSE k \in prev : \A m \in prev : m <= k].text

\* _get_section_content: the non-empty texts of the children that are not of
\* class sectno, joined by "\n".
_get_section_content(node) ==
    LET kept  == SelectSeq(node.children, LAMBDA c : c.cls # "sectno" /\ c.text # <<>>)
    IN  Join("\n", [i \in 1..Len(kept) |-> kept[i].text])

\* The forward scan of _collect_amended_section_instructions over the
\* amendment-part paragraphs that follow, from (main_instruction, subs).
RECURSIVE scan_amendment_parts(_, _, _)
scan_amendment_parts(ps, main_instruction, sub_instructions) ==
    IF ps = <<>> THEN <<main_instruction, sub_instructions>>
    ELSE IF Head(ps).sub
         THEN scan_amendment_parts(Tail(ps), main_instruction,
                                   Append(sub_instructions, Head(ps).text))
    ELSE IF main_instruction = <<>>
         THEN scan_amendment_parts(Tail(ps), Head(ps).text, sub_instructions)
    ELSE <<main_instruction, sub_instructions>>

amended_info_at(doc, i) ==
    LET following == SelectSeq(SubSeq(doc, i + 1, Len(doc)), LAMBDA n : n.tag = "p")
        scanned   == scan_amendment_parts(following, <<>>, <<>>)
    IN  [instruction |-> scanned[1], content |-> Join("\n", scanned[2])]

IsAmendedSection(node) ==
    /\ node.tag = "section"
    /\ HasChild(node, "section-subject")
    /\ "[Amended]" \in Range(FirstChild(node, "section-subject").text)
    /\ IsNumberedSection(node)

\* _collect_amended_section_instructions: section number -> its info; a
\* later section with the same number replaces the earlier entry.
_collect_amended_section_instructions(doc) ==
    LET idx == {i \in 1..Len(doc) : IsAmendedSection(doc[i])}
        last(n) == CHOOSE i \in idx :
                      /\ section_num_of(doc[i]) = n
                      /\ \A k \in idx : section_num_of(doc[k]) = n => k <= i
    IN  [n \in {section_num_of(doc[i]) : i \in idx} |-> amended_info_at(doc, last(n))]

\* The record of the section at i (lines 128-143).
section_record(doc, i, amended_instructions) ==
    LET section_num == section_num_of(doc[i])
        instruction == _get_amendment_instruction(doc, i)
        content     == _get_section_content(doc[i])
        use_amended == /\ (content = <<>> \/ py_strip(content) = <<"[Amended]">>)
                       /\ section_num \in DOMAIN amended_instructions
        info        == amended_instructions[section_num]
    IN  [affected_dfars_section |-> section_num,
         amendment_instruction  |-> IF use_amended /\ info.instruction # <<>>
                                    THEN info.instruction ELSE instruction,
         content                |-> IF use_amended THEN info.content ELSE content]

\* Lines 118-143: the loop over the div.section elements.
RECURSIVE sections_loop(_, _, _, _, _)
sections_loop(doc, i, seen_sections, amended_instructions, acc) ==
    IF i > Len(doc) THEN acc
    ELSE IF ~IsNumberedSection(doc[i]) \/ section_num_of(doc[i]) \in seen_sections
         THEN sections_loop(doc, i + 1, seen_sections, amended_instructions, acc)
         ELSE sections_loop(doc, i + 1, seen_sections \cup {section_num_of(doc[i])},
                            amended_instructions,
                            Append(acc, section_record(doc, i, amended_instructions)))

\* re.findall(r"[Ss]ection\s+(\d{3}\.\d[\w\-\.]*)", text): the number words
\* that follow a word ending in "section" or "Section".
regex_matches(text) ==
    LET SectionWords == {"section", "Section", "subsection"}
        NumberWords  == {"216.102", "216.103", "216.102."}
        at == {k \in 2..Len(text) : text[k-1] \in SectionWords /\ text[k] \in NumberWords}
        RECURSIVE upto(_)
        upto(k) == IF k > Len(text) THEN <<>>
                   ELSE (IF k \in at THEN <<text[k]>> ELSE <<>>) \o upto(k + 1)
    IN  upto(1)

\* Lines 147-159: the fallback over the amendment-part paragraphs.
RECURSIVE fallback_matches(_, _, _, _)
fallback_matches(ms, text, seen_sections, acc) ==
    IF ms = <<>> THEN <<seen_sections, acc>>
    ELSE IF Head(ms) \in seen_sections
         THEN fallback_matches(Tail(ms), text, seen_sections, acc)
         ELSE fallback_matches(Tail(ms), text, seen_sections \cup {Head(ms)},
                               Append(acc, [affected_dfars_section |-> <<Head(ms)>>,
                                            amendment_instruction  |-> text,
                                            content                |-> <<>>]))

RECURSIVE fallback_loop(_, _, _)
fallback_loop(ps, seen_sections, acc) ==
    IF ps = <<>> THEN acc
    ELSE LET r == fallback_matches(regex_matches(Head(ps).text), Head(ps).text,
                                   seen_sections, acc)
         IN  fallback_loop(Tail(ps), r[1], r[2])

\* extract_dfars_sections, on the parsed document.
extract_dfars_sections(doc) ==
    LET amended_instructions == _collect_amended_section_instructions(doc)
        found == sections_loop(doc, 1, {}, amended_instructions, <<>>)
    IN  IF found # <<>> THEN found
        ELSE fallback_loop(SelectSeq(doc, LAMBDA n : n.tag = "p"), {}, <<>>)

\* Elements.
Sec102 ==
    SectionNode(<<Child("sectno-reference", <<"sectno-reference-", "216.102">>, <<>>),
                  Child("section-subject", <<>>, <<"Policy.">>),
                  Child("p", <<>>, <<"(a)", "text">>)>>)
Sec102Amended ==
    SectionNode(<<Child("sectno-reference", <<"sectno-reference-", "216.102">>, <<>>),
                  Child("section-subject", <<>>, <<"[Amended]">>)>>)
Sec103Amended ==
    SectionNode(<<Child("sectno-reference", <<"sectno-reference-", "216.103">>, <<>>),
                  Child("section-subject", <<>>, <<"[Amended]">>)>>)
SecNoNumber == SectionNode(<<Child("section-subject", <<>>, <<"Policy.">>)>>)
PMain == PNode(<<"2.", "Amend", "section", "216.102", "and", "Section", "216.103",
                 "and", "subsection", "216.102">>, FALSE)
PSub == PNode(<<"a.", "Remove", "paragraph">>, TRUE)

Nodes == {Sec102, Sec102Amended, Sec103Amended, SecNoNumber, PMain, PSub}
Docs == SeqsUpTo(Nodes, MaxNodes)

\* A row of the CSV after fillna(""): the url cell (its lines) and the keys.
ExtractCells == {<<>>, <<U1>>, <<U1, U1>>, <<U3, Blank, U2>>}
ExtractRow(cell) ==
    [fr_body_html_url |-> cell, ndaa_year |-> FY24, ndaa_section |-> Sec831a,
     case_number |-> <<"2023-D001">>]

NoHtml == <<[tag |-> "missing", children |-> <<>>, text |-> <<>>, sub |-> FALSE]>>
FileD == <<"d", ".html">>
FileS == <<"s", ".html">>

\* The loop over the urls of one row (lines 209-238): the details, the
\* row's section list, the skipped ids and the source of each detail.
RECURSIVE urls_loop(_, _, _, _, _)
urls_loop(row, ridx, urls, pos, st) ==
    IF pos > Len(urls) THEN st
    ELSE LET url    == urls[pos]
             doc_id == _extract_doc_id_from_url(url)
             file   == html_file_name(doc_id)
             sections == extract_dfars_sections(html_dir[file])
             detail(sec) == [ndaa_year |-> row.ndaa_year,
                             ndaa_section |-> row.ndaa_section,
                             case_number |-> row.case_number,
                             document_id |-> doc_id,
                             affected_dfars_section |-> sec.affected_dfars_section,
                             amendment_instruction |-> sec.amendment_instruction,
                             content |-> sec.content]
             new_nums == SelectSeq([k \in 1..Len(sections) |->
                                       sections[k].affected_dfars_section],
                                   LAMBDA n : n \notin Range(st.row_sections))
         IN  IF doc_id = None THEN urls_loop(row, ridx, urls, pos + 1, st)
             ELSE IF file \notin DOMAIN html_dir \/ html_dir[file] = NoHtml
             THEN urls_loop(row, ridx, urls, pos + 1,
                            [st EXCEPT !.skipped = Append(@, <<doc_id, ridx, "">>)])
             ELSE IF sections = <<>>
             THEN urls_loop(row, ridx, urls, pos + 1,
                            [st EXCEPT !.skipped = Append(@, <<doc_id, ridx, "no sections">>)])
             ELSE urls_loop(row, ridx, urls, pos + 1,
                            [st EXCEPT
                               !.row_sections = @ \o new_nums,
                               !.details = @ \o [k \in 1..Len(sections) |-> detail(sections[k])],
                               !.src = @ \o [k \in 1..Len(sections) |-> <<ridx, pos>>]])

ExtractInit ==
    /\ Idle("extract")
    /\ e_pc = "rows"
    /\ e_df \in {[i \in 1..Len(cs) |-> ExtractRow(cs[i])] :
                    cs \in SeqsUpTo(ExtractCells, MaxExtractRows)}
    /\ e_idx = 1
    /\ \E d \in Docs, s \in {NoHtml, <<PMain>>} :
          html_dir = (FileD :> d) @@ (FileS :> s)
    /\ all_details = <<>>
    /\ affected_sections_col = <<>>
    /\ skipped = <<>>
    /\ e_detail_src = <<>>

\* Lines 197-243: one row.
ExtractOneRow ==
    /\ Frame("extract")
    /\ e_pc = "rows" /\ e_idx <= Len(e_df)
    /\ LET row  == e_df[e_idx]
           urls == SelectSeq(row.fr_body_html_url, LAMBDA u : u # Blank)
           st   == urls_loop(row, e_idx, urls, 1,
                             [row_sections |-> <<>>, details |-> <<>>,
                              skipped |-> <<>>, src |-> <<>>])
       IN  /\ all_details' = all_details \o st.details
           /\ e_detail_src' = e_detail_src \o st.src
           /\ skipped' = skipped \o st.skipped
           /\ affected_sections_col' = Append(affected_sections_col, Join(";", st.row_sections))
    /\ e_idx' = e_idx + 1
    /\ UNCHANGED <<e_pc, e_df, html_dir>>

\* Lines 245-265: the column is added and both CSVs are written.
ExtractWrite ==
    /\ Frame("extract")
    /\ e_pc = "rows" /\ e_idx > Len(e_df)
    /\ e_pc' = "done"
    /\ UNCHANGED <<e_df, e_idx, html_dir, all_details, affected_sections_col,
                   skipped, e_detail_src>>

ExtractNext == ExtractOneRow \/ ExtractWrite

(***************************************************************************)
(* The Section Extractor's claims                                          *)
(***************************************************************************)
NoRepeatedSection(recs) ==
    \A i, k \in 1..Len(recs) :
        i # k => recs[i].affected_dfars_section # recs[k].affected_dfars_section

PresentDocs == {html_dir[f] : f \in DOMAIN html_dir} \ {NoHtml}

\* The list extract_dfars_sections returns for a cached document names no
\* section twice, with or without section containers.
SectionsUniquePerDocument ==
    e_pc # "off" => \A d \in PresentDocs : NoRepeatedSection(extract_dfars_sections(d))

\* C7: extract_dfars_sections never returns two records with the same
\* affected_dfars_section, and so the detail rows of one (tracker row,
\* document_id) never repeat an affected_dfars_section.
C7_SectionUniqueness ==
    /\ SectionsUniquePerDocument
    /\ \A i, k \in 1..Len(all_details) :
          (/\ i # k
           /\ e_detail_src[i][1] = e_detail_src[k][1]
           /\ all_details[i].document_id = all_details[k].document_id)
          => all_details[i].affected_dfars_section # all_details[k].affected_dfars_section

\* C7, as far as it holds: extract_dfars_sections never returns two records
\* with the same affected_dfars_section, and the detail rows made for one
\* entry of a tracker row's url cell never repeat an affected_dfars_section.
C7_SectionUniquenessPerUrl ==
    /\ SectionsUniquePerDocument
    /\ \A i, k \in 1..Len(all_details) :
          (i # k /\ e_detail_src[i] = e_detail_src[k])
          => all_details[i].affected_dfars_section # all_details[k].affected_dfars_section

(***************************************************************************)
(* extract_dfars_sections as a function of one document: the documents are *)
(* long enough for a section, a repeat of it and the paragraphs between.   *)
(***************************************************************************)
MaxDocLen == 5

SectionsInit ==
    /\ Idle("sections")
    /\ s_pc = "doc"
    /\ s_doc \in SeqsUpTo(Nodes, MaxDocLen)
    /\ s_records = <<>>
    /\ s_fallback = FALSE

\* extract_dfars_sections(html_path) on the parsed document (lines 113-161)
SectionsExtract ==
    /\ Frame("sections")
    /\ s_pc = "doc"
    /\ s_pc' = "done"
    /\ s_records' = extract_dfars_sections(s_doc)
    /\ s_fallback' = (sections_loop(s_doc, 1, {},
                                    _collect_amended_section_instructions(s_doc),
                                    <<>>) = <<>>)
    /\ UNCHANGED s_doc

SectionsNext == SectionsExtract

(***************************************************************************)
(* First occurrence wins                                                   *)
(***************************************************************************)
\* The section containers of a document that carry the section number n.
ContainersOf(doc, n) ==
    {i \in 1..Len(doc) : IsNumberedSection(doc[i]) /\ section_num_of(doc[i]) = n}

FirstContainer(doc, n) ==
    CHOOSE i \in ContainersOf(doc, n) : \A k \in ContainersOf(doc, n) : i <= k

\* The record of a section number taken from the container at i alone: the
\* paragraph before it and its own content, or, for an "[Amended]" container
\* without content of its own, the forward scan that starts at i.
RecordFromContainer(doc, i) ==
    LET instruction == _get_amendment_instruction(doc, i)
        content     == _get_section_content(doc[i])
        elided      == /\ IsAmendedSection(doc[i])
                       /\ (content = <<>> \/ py_strip(content) = <<"[Amended]">>)
        info        == amended_info_at(doc, i)
    IN  [affected_dfars_section |-> section_num_of(doc[i]),
         amendment_instruction  |-> IF elided /\ info.instruction # <<>>
                                    THEN info.instruction ELSE instruction,
         content                |-> IF elided THEN info.content ELSE content]

NumbersOf(doc) == {section_num_of(doc[i]) : i \in {k \in 1..Len(doc) : IsNumberedSection(doc[k])}}

RecordsOf(recs, n) == {i \in 1..Len(recs) : recs[i].affected_dfars_section = n}

AmendedContainersOf(doc, n) == {i \in ContainersOf(doc, n) : IsAmendedSection(doc[i])}

\* C11: for every section number of the document's containers there is one
\* record, and its amendment_instruction and content are those of the first
\* container with that number, the forward scan of an "[Amended]" container
\* included.
C11_FirstOccurrenceWins ==
    s_pc = "done" =>
        \A n \in NumbersOf(s_doc) :
            /\ Cardinality(RecordsOf(s_records, n)) = 1
            /\ \A i \in RecordsOf(s_records, n) :
                  s_records[i] = RecordFromContainer(s_doc, FirstContainer(s_doc, n))

\* C11, as far as it holds: one record for every section number, taken from
\* the first container unless two or more "[Amended]" containers carry the
\* number.
C11_FirstWinsWithoutAmendedRepeat ==
    s_pc = "done" =>
        \A n \in NumbersOf(s_doc) :
            /\ Cardinality(RecordsOf(s_records, n)) = 1
            /\ Cardinality(AmendedContainersOf(s_doc, n)) <= 1
               => \A i \in RecordsOf(s_records, n) :
                     s_records[i] = RecordFromContainer(s_doc, FirstContainer(s_doc, n))

\* A repeated "[Amended]" section with paragraphs between the two containers.
C11_RepeatedAmended ==
    /\ s_pc = "done"
    /\ \E n \in NumbersOf(s_doc) :
          /\ Cardinality(AmendedContainersOf(s_doc, n)) >= 2
          /\ \E k \in 1..Len(s_doc) :
                /\ s_doc[k].tag = "p"
                /\ FirstContainer(s_doc, n) < k
                /\ \E m \in AmendedContainersOf(s_doc, n) : k < m

(***************************************************************************)
(* Regex fallback condition                                                *)
(***************************************************************************)
HasSectionContainer(doc) == \E k \in 1..Len(doc) : doc[k].tag = "section"

\* Every record is made of one amendment-part paragraph of the document: its
\* whole text as instruction, a section number found in it, no content.
RecordsAreParagraphMatches(doc, recs) ==
    \A i \in 1..Len(recs) :
        /\ recs[i].content = <<>>
        /\ \E k \in 1..Len(doc) :
              /\ doc[k].tag = "p"
              /\ recs[i].amendment_instruction = doc[k].text
              /\ \E t \in Range(regex_matches(doc[k].text)) :
                    recs[i].affected_dfars_section = <<t>>

\* C12: the regex scan over the amendment-part paragraphs runs if and only
\* if the document holds no section container at all, and when it runs each
\* record has the whole paragraph text as amendment_instruction and an empty
\* content.
C12_FallbackCondition ==
    s_pc = "done" =>
        /\ s_fallback <=> ~HasSectionContainer(s_doc)
        /\ s_fallback => RecordsAreParagraphMatches(s_doc, s_records)

\* C12, as far as it holds: the regex scan runs if and only if no container
\* of the document carries a section number, and its records are made as
\* C12 says.
C12_FallbackIffNoNumberedContainer ==
    s_pc = "done" =>
        /\ s_fallback <=> NumbersOf(s_doc) = {}
        /\ s_fallback => RecordsAreParagraphMatches(s_doc, s_records)

\* The regex scan made a record in a document that has a section container.
C12_FallbackBesideContainer ==
    s_pc = "done" /\ s_fallback /\ HasSectionContainer(s_doc) /\ s_records # <<>>

(***************************************************************************)
(* The forward scan of an "[Amended]" section                              *)
(***************************************************************************)
\* The amendment-part paragraphs after position i, and those of them without
\* a sub-number marker.
ParagraphsAfter(doc, i) == {k \in (i+1)..Len(doc) : doc[k].tag = "p"}
UnnumberedAfter(doc, i) == {k \in ParagraphsAfter(doc, i) : ~doc[k].sub}

\* The position of the second paragraph without a sub-number marker after i,
\* past the end of the document when there is none.
ScanStop(doc, i) ==
    LET second == {k \in UnnumberedAfter(doc, i) :
                      \E m \in UnnumberedAfter(doc, i) : m < k}
    IN  IF second = {} THEN Len(doc) + 1
        ELSE CHOOSE k \in second : \A m \in second : k <= m

\* The texts of the sub-numbered paragraphs between i and the stop, in order.
RECURSIVE SubTextsBetween(_, _, _)
SubTextsBetween(doc, k, stop) ==
    IF k >= stop THEN <<>>
    ELSE (IF doc[k].tag = "p" /\ doc[k].sub THEN <<doc[k].text>> ELSE <<>>)
         \o SubTextsBetween(doc, k + 1, stop)

\* The record of number n is filled by the scan that starts at container i.
FilledByScanFrom(doc, recs, n, i) ==
    \A r \in RecordsOf(recs, n) :
        /\ UnnumberedAfter(doc, i) # {}
           => recs[r].amendment_instruction =
                 doc[CHOOSE k \in UnnumberedAfter(doc, i) :
                        \A m \in UnnumberedAfter(doc, i) : k <= m].text
        /\ recs[r].content = Join("\n", SubTextsBetween(doc, i + 1, ScanStop(doc, i)))

\* C13: the record of a section marked "[Amended]" has as instruction the
\* first following paragraph without a sub-number marker and as content the
\* sub-numbered paragraphs, in order, that come before the second paragraph
\* without a sub-number marker; nothing at or after that paragraph
\* contributes to the record.
C13_AmendedForwardScan ==
    s_pc = "done" =>
        \A n \in NumbersOf(s_doc) :
            IsAmendedSection(s_doc[FirstContainer(s_doc, n)])
            => FilledByScanFrom(s_doc, s_records, n, FirstContainer(s_doc, n))

\* C13, as far as it holds: the same, for a section number that only one
\* "[Amended]" container carries.
C13_ForwardScanOfSingleAmended ==
    s_pc = "done" =>
        \A n \in NumbersOf(s_doc) :
            (/\ IsAmendedSection(s_doc[FirstContainer(s_doc, n)])
             /\ Cardinality(AmendedContainersOf(s_doc, n)) = 1)
            => FilledByScanFrom(s_doc, s_records, n, FirstContainer(s_doc, n))

\* An "[Amended]" section whose scan met a main instruction, a sub-numbered
\* paragraph and a second paragraph without a sub-number marker.
C13_ScanStopped ==
    /\ s_pc = "done"
    /\ \E n \in NumbersOf(s_doc) :
          /\ IsAmendedSection(s_doc[FirstContainer(s_doc, n)])
          /\ ScanStop(s_doc, FirstContainer(s_doc, n)) <= Len(s_doc)
          /\ \E r \in RecordsOf(s_records, n) : s_records[r].content # <<>>

\* The record of an "[Amended]" section holds a sub-numbered paragraph
\* although none lies between the section and the stop of its scan.
C13_ParagraphPastStopContributes ==
    /\ s_pc = "done"
    /\ \E n \in NumbersOf(s_doc) :
          /\ IsAmendedSection(s_doc[FirstContainer(s_doc, n)])
          /\ SubTextsBetween(s_doc, FirstContainer(s_doc, n) + 1,
                             ScanStop(s_doc, FirstContainer(s_doc, n))) = <<>>
          /\ \E r \in RecordsOf(s_records, n) : s_records[r].content # <<>>

(***************************************************************************)
(* The CSV files the stages hand to each other, by header and row count.   *)
(* A stage may be run at any time its input file exists, any number of     *)
(* times.                                                                  *)
(***************************************************************************)
MaxStageRuns == 5
MaxCsvRows == 2

CITATIONS_CSV == "ndaa_final_rule_citations.csv"
WITH_RATIONALE_CSV == "ndaa_final_rule_with_rationale.csv"
WITH_DFARS_SECTIONS_CSV == "ndaa_final_rule_with_dfars_sections.csv"
DFARS_CHANGES_CSV == "ndaa_final_rule_dfars_changes.csv"
CsvFiles == {CITATIONS_CSV, WITH_RATIONALE_CSV, WITH_DFARS_SECTIONS_CSV, DFARS_CHANGES_CSV}

NoHeader == <<"<no file>">>
NoCsv == [header |-> NoHeader, nrows |-> 0]
\* parse_tracker.py main: the fieldnames.
parser_fieldnames ==
    <<"ndaa_year", "ndaa_section", "paragraph", "section_title", "status",
      "case_number", "frn_citation", "fr_date">>

\* extract_dfars_sections_ndaa.py main: the fieldnames of the detail CSV.
detail_fieldnames ==
    <<"ndaa_year", "ndaa_section", "case_number", "document_id",
      "affected_dfars_section", "amendment_instruction", "content">>

\* df[col] = values: a new column goes last, an existing one is replaced
\* where it stands.
df_set_column(columns, col) ==
    IF col \in Range(columns) THEN columns ELSE Append(columns, col)

\* fetch_citation.py lines 150-151
resolver_columns(columns) ==
    df_set_column(df_set_column(columns, "fr_title"), "fr_body_html_url")

\* extract_dfars_sections_ndaa.py line 246
extractor_columns(columns) == df_set_column(columns, "affected_dfars_sections")

\* add_ndaa_text.py line 112: list(fieldnames) + ["ndaa_text"]
output_fieldnames(fieldnames) == fieldnames \o <<"ndaa_text">>

ColumnInit ==
    /\ Idle("column")
    /\ c_pc = "on"
    /\ c_disk = [f \in CsvFiles |-> NoCsv]
    /\ c_last = [stage |-> "none", input |-> NoHeader, output |-> NoHeader]
    /\ c_runs = 0

\* parse_tracker.py main: the CSV is written only when there are results.
ColParser ==
    /\ Frame("column")
    /\ c_pc = "on" /\ c_runs < MaxStageRuns
    /\ \E n \in 0..MaxCsvRows :
          /\ c_disk' = IF n > 0
                       THEN [c_disk EXCEPT ![CITATIONS_CSV] =
                                               [header |-> parser_fieldnames, nrows |-> n]]
                       ELSE c_disk
          /\ c_last' = [stage |-> "parser", input |-> NoHeader,
                        output |-> IF n > 0 THEN parser_fieldnames ELSE NoHeader]
    /\ c_runs' = c_runs + 1
    /\ UNCHANGED c_pc

\* fetch_citation.py main: reads the citations, writes them with two more
\* columns; a run that raises on a row writes nothing.
ColResolver ==
    /\ Frame("column")
    /\ c_pc = "on" /\ c_runs < MaxStageRuns
    /\ c_disk[CITATIONS_CSV] # NoCsv
    /\ \E raised \in BOOLEAN :
          LET in  == c_disk[CITATIONS_CSV]
              out == [header |-> resolver_columns(in.header), nrows |-> in.nrows]
          IN  /\ c_disk' = IF raised THEN c_disk
                           ELSE [c_disk EXCEPT ![WITH_RATIONALE_CSV] = out]
              /\ c_last' = [stage |-> "resolver", input |-> in.header,
                            output |-> IF raised THEN NoHeader ELSE out.header]
    /\ c_runs' = c_runs + 1
    /\ UNCHANGED c_pc

\* extract_dfars_sections_ndaa.py main: writes the summary CSV (its input
\* and one column) and the detail CSV (seven columns of its own).
ColExtractor ==
    /\ Frame("column")
    /\ c_pc = "on" /\ c_runs < MaxStageRuns
    /\ c_disk[WITH_RATIONALE_CSV] # NoCsv
    /\ \E m \in 0..MaxCsvRows :
          LET in  == c_disk[WITH_RATIONALE_CSV]
              out == [header |-> extractor_columns(in.header), nrows |-> in.nrows]
          IN  /\ c_disk' = [c_disk EXCEPT ![WITH_DFARS_SECTIONS_CSV] = out,
                                          ![DFARS_CHANGES_CSV] =
                                              [header |-> detail_fieldnames, nrows |-> m]]
              /\ c_last' = [stage |-> "extractor", input |-> in.header,
                            output |-> out.header]
    /\ c_runs' = c_runs + 1
    /\ UNCHANGED c_pc

\* add_ndaa_text.py main: INPUT_CSV and OUTPUT_CSV are the same file.
ColJoiner ==
    /\ Frame("column")
    /\ c_pc = "on" /\ c_runs < MaxStageRuns
    /\ c_disk[DFARS_CHANGES_CSV] # NoCsv
    /\ LET in  == c_disk[DFARS_CHANGES_CSV]
           out == [header |-> output_fieldnames(in.header), nrows |-> in.nrows]
       IN  /\ c_disk' = [c_disk EXCEPT ![DFARS_CHANGES_CSV] = out]
           /\ c_last' = [stage |-> "joiner", input |-> in.header, output |-> out.header]
    /\ c_runs' = c_runs + 1
    /\ UNCHANGED c_pc

ColumnNext == ColParser \/ ColResolver \/ ColExtractor \/ ColJoiner

(***************************************************************************)
(* Column growth                                                           *)
(***************************************************************************)
AddedColumns(stage) ==
    CASE stage = "resolver"  -> {"fr_title", "fr_body_html_url"}
      [] stage = "extractor" -> {"affected_dfars_sections"}
      [] stage = "joiner"    -> {"ndaa_text"}

\* The last run read a prior stage's CSV and wrote its own.
WroteFromCsv ==
    c_last.stage \in {"resolver", "extractor", "joiner"} /\ c_last.output # NoHeader

StrictSuperset(a, b) == b \subseteq a /\ a # b

\* C9: a stage that reads a prior-stage CSV and writes a CSV writes a column
\* set that is a strict superset of the column set it read and holds the
\* columns the stage adds, whatever file it was run on, the Joiner's own
\* output included.
C9_ColumnGrowth ==
    WroteFromCsv =>
        /\ StrictSuperset(Range(c_last.output), Range(c_last.input))
        /\ AddedColumns(c_last.stage) \subseteq Range(c_last.output)

\* What holds on every run: the written column set is the read one and the
\* stage's columns, so it grows exactly when one of them was not yet there.
C9_ColumnGrowthOrRepeat ==
    WroteFromCsv =>
        Range(c_last.output) = Range(c_last.input) \cup AddedColumns(c_last.stage)

vars == <<f_pc, f_df, download_list, f_i, files, files0, success, failed, f_requests,
          f_visited, x_pc, x_doc, x_url, x_written, x_lookup, r_pc, dfars_df, r_idx,
          individual_citations, individual_dates, r_j, row_titles, row_urls, fr_titles,
          fr_html_urls, r_log, ndaa_files, ndaa_cache, l_hist, j_pc, rows, unique_pairs,
          text_cache, j_calls, p_pc, p_table, p_i, results, e_pc, e_df, e_idx, html_dir,
          all_details, affected_sections_col, skipped, e_detail_src, c_pc, c_disk,
          c_last, c_runs, s_pc, s_doc, s_records, s_fallback, q_pc,
          q_citation, q_date, q_resp1, q_resp2, q_result>>

SpecFetch == FetchInit /\ [][FetchNext]_vars
SpecCross == CrossInit /\ [][CrossNext]_vars
SpecResolve == ResolveInit /\ [][ResolveNext]_vars
SpecLookup == LookupInit /\ [][LookupNext]_vars
SpecJoin == JoinInit /\ [][JoinNext]_vars
SpecParse == ParseInit /\ [][ParseNext]_vars
SpecExtract == ExtractInit /\ [][ExtractNext]_vars
SpecColumn == ColumnInit /\ [][ColumnNext]_vars
SpecSections == SectionsInit /\ [][SectionsNext]_vars
SpecQuery == QueryInit /\ [][QueryNext]_vars
=============================================================================
